---------------------------- MODULE Spec2Model ----------------------------
(***************************************************************************)
(* Entity resolution and cross-reference pipeline of epstein-db:           *)
(*   - the extraction orchestrator (scripts/extract-entities.ts),          *)
(*   - the storage operations it uses (db.ts) over the schema (schema.sql),*)
(*   - the layer classifier (db.ts, calculateEntityLayers),                *)
(*   - the cross-reference matcher (the cross-reference matching script).  *)
(* The database is the shared state; every action is one awaited database  *)
(* statement or one awaited LLM call of one task, so that the interleavings*)
(* of the model are the interleavings of the awaits of the code.           *)
(***************************************************************************)
EXTENDS Integers, Sequences, FiniteSets, TLC

(***************************************************************************)
(* Bounds of the model.                                                    *)
(***************************************************************************)
\* the corpus holds the documents 1..NumDocs (documents.id)
NumDocs == 5
\* the smaller corpus of the specifications with two processes or two runs
NumDocsSmall == 2
\* config.BATCH_SIZE and config.MAX_WORKERS (environment settings)
BATCH_SIZE == 3
MAX_WORKERS == 2
\* number of times the orchestrator script is started in SpecRestart
MaxRuns == 2
\* number of calls of calculateEntityLayers in SpecLayers and SpecConcurrent
MaxClsRuns == 2
\* the corpus of SpecLayers
NumDocsLayers == 3
\* number of times the matching script is started, and of flags reviewers
\* set, in SpecMatch
MaxMatcherRuns == 2
MaxReviews == 1
\* the highest documents.id the ingest script draws in SpecIngest
MaxDocId == 3

NULL == "NULL"

Docs == 1..NumDocs
\* orchestrator processes (operating-system processes running the script)
Procs == {1, 2}

(***************************************************************************)
(* The corpus: documents.full_text by documents.id.  The column is         *)
(* nullable (schema.sql line 20); the corpus holds documents with text     *)
(* (the ingest script stores the non-blank lines of a document that has    *)
(* one, so a text is never empty) and documents loaded without text.       *)
(***************************************************************************)
FullText(d) ==
    CASE d = 1 -> "some text"
      [] d = 2 -> "other text"
      [] d = 3 -> "more text"
      [] d = 4 -> "last text"
      [] OTHER -> NULL

(***************************************************************************)
(* Names.  JavaScript's String.prototype.toLowerCase on the names used.    *)
(***************************************************************************)
ROOT_NAME == "Jeffrey Epstein"
ROOT_TYPE == "person"

toLowerCase(s) ==
    CASE s = "Jeffrey Epstein" -> "jeffrey epstein"
      [] s = "J. Smith"        -> "j. smith"
      [] s = "j. smith"        -> "j. smith"
      [] s = "Acme"            -> "acme"
      [] s = "ACME"            -> "acme"
      [] s = "Palm Beach"      -> "palm beach"
      [] s = "Acme Holdings LLC" -> "acme holdings llc"
      [] OTHER                 -> s

(***************************************************************************)
(* Responses of the LLM call and the analyses they carry.                  *)
(* A triple's timestamp is a string (TripleSchema: z.string().optional()); *)
(* tsValid says whether new Date(timestamp) is a valid date: an invalid    *)
(* Date is rejected by the DATE column and insertTriple throws.            *)
(***************************************************************************)
Ent(n, t) == [name |-> n, type |-> t]
Tri(s, st, o, ot, loc, ok) ==
    [subject |-> s, subjectType |-> st, object |-> o, objectType |-> ot,
     location |-> loc, tsValid |-> ok]

\* dateEarliest and dateLatest are strings or null (DocumentAnalysisSchema:
\* z.string().nullable(), any string passes)
Analyses ==
    { [entities |-> << Ent("J. Smith", "person") >>,
       triples  |-> << >>,
       dateEarliest |-> "2005-03-14", dateLatest |-> NULL],
      [entities |-> << Ent("Jeffrey Epstein", "person") >>,
       triples  |-> << Tri("J. Smith", "person", "Acme", "organization",
                           "Palm Beach", TRUE) >>,
       dateEarliest |-> NULL, dateLatest |-> NULL],
      [entities |-> << Ent("Acme", "organization") >>,
       triples  |-> << Tri("J. Smith", "person", "ACME", "organization",
                           NULL, FALSE) >>,
       dateEarliest |-> "", dateLatest |-> "2005-03-14"],
      [entities |-> << Ent("J. Smith", "person") >>,
       triples  |-> << >>,
       dateEarliest |-> "unknown", dateLatest |-> NULL] }

NoAnalysis ==
    [entities |-> << >>, triples |-> << >>,
     dateEarliest |-> NULL, dateLatest |-> NULL]

\* new Date(s) of JavaScript on the date strings used
InvalidDate == "Invalid Date"
NewDate(s) ==
    CASE s = "2005-03-14" -> "2005-03-14T00:00:00.000Z"
      [] OTHER            -> InvalidDate

\* processDocument, lines 48-53: analysis.dateX ? new Date(analysis.dateX)
\* : undefined (null and the empty string are falsy; undefined is sent as NULL)
ParseDate(s) == IF s \in {NULL, ""} THEN NULL ELSE NewDate(s)

\* what anthropic.messages.create can do: throw, or return text that holds no
\* JSON, JSON of the wrong shape, or one of the analyses
Responses ==
    { [kind |-> k, analysis |-> NoAnalysis] :
         k \in {"api_error", "no_json", "bad_shape"} }
    \cup { [kind |-> "ok", analysis |-> a] : a \in Analyses }

(***************************************************************************)
(* State.                                                                  *)
(*   documents          table documents: id -> row                         *)
(*   documents_id_seq   the SERIAL sequence of documents.id (last value)   *)
(*   entities           table entities: set of rows                        *)
(*   entities_id_seq    the SERIAL sequence of entities.id (last value)    *)
(*   document_entities  table document_entities: set of rows               *)
(*   triples            table triples: set of rows                         *)
(*   upsertLog          what the upsertEntity calls made so far returned:  *)
(*                      (canonicalName, entityType, id), and the document  *)
(*                      whose task made the call                           *)
(*   received           per document: the kind of the last response the    *)
(*                      LLM call made for it came back with, the run that  *)
(*                      made that call and the number of calls of that run *)
(*   clsPc              where calculateEntityLayers is: the statement it   *)
(*                      runs next, or idle / done                          *)
(*   clsRuns            how many times calculateEntityLayers was called    *)
(*   entity_crossref_matches   table entity_crossref_matches: set of rows  *)
(*   entity_matches     the columns ppp_matches, fec_matches and           *)
(*                      grants_matches of entities, for the entities and   *)
(*                      sources an UPDATE has written (else the default)   *)
(*   mPc                where main() of the matching script is: the        *)
(*                      statement it runs next, or idle / done             *)
(*   found              its locals pppMatches, fecMatches, grantsMatches   *)
(*   mRuns              how many times the matching script was started     *)
(*   reviews            how many flags reviewers have set                  *)
(*   lastRun            the entities, the match rows, the summary columns  *)
(*                      and the number of reviews as they were when the    *)
(*                      matching script last ended (history)               *)
(*   mainPc             per orchestrator process: where main() is          *)
(*   tasks              per process and document of its batch: the         *)
(*                      processDocument task (position and locals)         *)
(*   runs               how many times each orchestrator process started   *)
(***************************************************************************)
VARIABLES documents, documents_id_seq, entities, entities_id_seq, document_entities, triples,
          upsertLog, received, mainPc, tasks, runs, clsPc, clsRuns,
          entity_crossref_matches, entity_matches, mPc, found, mRuns, reviews,
          lastRun, linkLog, text, truncatedText, extractPc, changed, clsStart

entVars  == << entities, entities_id_seq, upsertLog >>
\* the link table and the calls of linkEntityToDocument made so far
linkVars == << document_entities, linkLog >>
dbVars   == << documents, documents_id_seq, entVars, linkVars, triples >>
orchVars == << mainPc, tasks, runs, received >>
\* changed: an entity or a link has been added since the last statement of
\* the last call of calculateEntityLayers ran (or none has run yet)
\* clsStart: the entities and links as they were when the call of
\* calculateEntityLayers that is running began, and whether none had been
\* added between the last statement of the call before it and that moment
clsVars  == << clsPc, clsRuns, changed, clsStart >>
matchVars == << entity_crossref_matches, entity_matches, mPc, found, mRuns,
                reviews, lastRun >>
\* the state of the offline passes (layer classifier, cross-reference matcher)
\* extractFromDocument's parameter `text` and local truncatedText
truncVars == << text, truncatedText, extractPc >>
passVars == << clsVars, matchVars, truncVars >>
vars     == << documents, documents_id_seq, entities, entities_id_seq, document_entities, triples,
               upsertLog, received, mainPc, tasks, runs, clsPc, clsRuns,
               entity_crossref_matches, entity_matches, mPc, found, mRuns,
               reviews, lastRun, linkLog, text, truncatedText, extractPc,
               changed, clsStart >>

\* entities.layer IS NULL (the column is a nullable INTEGER)
NoLayer == -1
\* triples.location_id IS NULL (ids are drawn from SERIAL sequences, from 1)
NoId == 0
NoCalls == [c \in {} |-> 0]
NoStart == [entities |-> {}, links |-> {}, clean |-> FALSE]
\* the extraction calls made for a document: the kind of the last response,
\* the run (of its process) that made the last call, and how many calls that
\* run has made
NoCall == [kind |-> "none", run |-> 0, calls |-> 0]
Call(last, kind, run) ==
    [kind |-> kind, run |-> run,
     calls |-> IF last.run = run THEN last.calls + 1 ELSE 1]
\* the matching script's locals before its queries have run
NoMatches == [ppp |-> {}, fec |-> {}, grants |-> {}]
\* the matching script has not ended yet
NoRun == [entities |-> {}, rows |-> {}, summary |-> {}, reviews |-> 0]

(***************************************************************************)
(* db.ts: the storage operations, each one SQL statement.                  *)
(***************************************************************************)
Min(a, b) == IF a < b THEN a ELSE b

\* INSERT INTO documents (doc_id, ..., full_text, ...) ... ON CONFLICT (doc_id)
\* DO UPDATE SET full_text = COALESCE(EXCLUDED.full_text, documents.full_text)
\* RETURNING id.  d is the row whose doc_id the call names, or no row of the
\* table (a doc_id that is new).  The id default (nextval) is drawn before the
\* conflict check; analysis_status defaults to 'pending'.
DocumentRow(fullText) ==
    [full_text |-> fullText, analysis_status |-> "pending", error_message |-> NULL]

insertDocument(docs, seq, d, fullText) ==
    IF d \in DOMAIN docs
    THEN [docs |-> [docs EXCEPT ![d].full_text =
                       IF fullText = NULL THEN @ ELSE fullText],
          id   |-> d,
          seq  |-> seq + 1]
    ELSE [docs |-> [x \in DOMAIN docs \cup {seq + 1} |->
                       IF x = seq + 1 THEN DocumentRow(fullText) ELSE docs[x]],
          id   |-> seq + 1,
          seq  |-> seq + 1]

\* (variant: the statement without AND full_text IS NOT NULL)
PendingRowsAnyText(docs) ==
    { d \in DOMAIN docs : docs[d].analysis_status = "pending" }

\* SELECT ... WHERE analysis_status = 'pending' AND full_text IS NOT NULL LIMIT n:
\* the rows that qualify ...
PendingRows(docs) ==
    { d \in DOMAIN docs :
        docs[d].analysis_status = "pending" /\ docs[d].full_text # NULL }

\* ... and the results the statement can return (no ORDER BY: any n of them)
getDocumentsPendingAnalysis(docs, limit) ==
    { S \in SUBSET PendingRows(docs) :
        Cardinality(S) = Min(limit, Cardinality(PendingRows(docs))) }

\* UPDATE documents SET analysis_status = 'processing' WHERE id = $1
markProcessing(docs, d) ==
    [docs EXCEPT ![d].analysis_status = "processing"]

\* (variant: the analysis is stored and the status left as it is)
updateDocumentAnalysisKeepsStatus(docs, d) == docs

\* UPDATE documents SET summary = ..., analysis_status = 'complete' WHERE doc_id = $1
updateDocumentAnalysis(docs, d) ==
    [docs EXCEPT ![d].analysis_status = "complete"]

\* (variant: the failure is recorded and the document put back in the queue)
markFailedRequeues(docs, d, message) ==
    [docs EXCEPT ![d].analysis_status = "pending", ![d].error_message = message]

\* UPDATE documents SET analysis_status = 'failed', error_message = $2 WHERE id = $1
markFailed(docs, d, message) ==
    [docs EXCEPT ![d].analysis_status = "failed", ![d].error_message = message]

\* INSERT INTO entities ... ON CONFLICT (canonical_name, entity_type) DO UPDATE
\* ... RETURNING id.  The id default (nextval) is drawn before the conflict check,
\* so the sequence advances on either path.
EntityRow(id, n, t, l) ==
    [id |-> id, canonical_name |-> n, entity_type |-> t, layer |-> l]

Conflicting(rows, n, t) ==
    { r \in rows : r.canonical_name = n /\ r.entity_type = t }

\* (variant: the insert with no conflict target to stop it)
upsertEntityAlwaysInserts(rows, seq, n, t) ==
    [rows |-> rows \cup { EntityRow(seq + 1, n, t, NoLayer) },
     id   |-> seq + 1,
     seq  |-> seq + 1]

\* (variant: on conflict the row is written anew, its other columns at their
\* defaults)
upsertEntityReplaces(rows, seq, n, t) ==
    LET old == Conflicting(rows, n, t)
    IN  IF old = {}
        THEN [rows |-> rows \cup { EntityRow(seq + 1, n, t, NoLayer) },
              id   |-> seq + 1,
              seq  |-> seq + 1]
        ELSE [rows |-> (rows \ old)
                        \cup { EntityRow(r.id, n, t, NoLayer) : r \in old },
              id   |-> (CHOOSE r \in old : TRUE).id,
              seq  |-> seq + 1]

upsertEntity(rows, seq, n, t) ==
    IF Conflicting(rows, n, t) = {}
    THEN [rows |-> rows \cup { EntityRow(seq + 1, n, t, NoLayer) },
          id   |-> seq + 1,
          seq  |-> seq + 1]
    ELSE [rows |-> rows,
          id   |-> (CHOOSE r \in Conflicting(rows, n, t) : TRUE).id,
          seq  |-> seq + 1]

\* return result.rows[0].id: what a call for (n, t) returned
Returned(n, t, id, d) ==
    [canonical_name |-> n, entity_type |-> t, id |-> id, document_id |-> d]

\* INSERT INTO document_entities ... ON CONFLICT (document_id, entity_id)
\* DO UPDATE SET mention_count = mention_count + EXCLUDED.mention_count
LinkRow(d, e, c) == [document_id |-> d, entity_id |-> e, mention_count |-> c]

\* DO UPDATE SET mention_count = EXCLUDED.mention_count
linkEntityToDocumentOverwrites(rows, e, d, mentionCount) ==
    LET old == { r \in rows : r.document_id = d /\ r.entity_id = e }
    IN  (rows \ old) \cup { LinkRow(d, e, mentionCount) }

linkEntityToDocument(rows, e, d, mentionCount) ==
    LET old == { r \in rows : r.document_id = d /\ r.entity_id = e }
    IN  IF old = {}
        THEN rows \cup { LinkRow(d, e, mentionCount) }
        ELSE (rows \ old)
             \cup { LinkRow(d, e, r.mention_count + mentionCount) : r \in old }

\* the calls of linkEntityToDocument made so far: how many there were with
\* each (documentId, entityId, mentionCount)
LinkCall(d, e, mentionCount) ==
    [document_id |-> d, entity_id |-> e, mention_count |-> mentionCount]

Called(log, c) ==
    [x \in DOMAIN log \cup {c} |->
        IF x = c THEN (IF c \in DOMAIN log THEN log[c] + 1 ELSE 1) ELSE log[x]]

\* INSERT INTO triples ... RETURNING id (id SERIAL: rows are never deleted and
\* no statement draws from the sequence without inserting)
insertTriple(rows, d, subjectId, objectId, locationId, sequenceOrder) ==
    rows \cup { [id |-> Cardinality(rows) + 1, document_id |-> d,
                 subject_id |-> subjectId, object_id |-> objectId,
                 location_id |-> locationId, sequence_order |-> sequenceOrder] }

(***************************************************************************)
(* The extraction client: extractFromDocument, from the response of the    *)
(* LLM call to a validated analysis or a thrown error (its String()).      *)
(***************************************************************************)
\* (variant: a response that cannot be parsed or validated is coerced to an
\* empty analysis instead of being thrown)
extractFromDocumentLenient(resp) ==
    CASE resp.kind = "api_error" ->
           [ok |-> FALSE, analysis |-> NoAnalysis,
            error |-> "Error: Connection error."]
      [] resp.kind = "ok" ->
           [ok |-> TRUE, analysis |-> resp.analysis, error |-> ""]
      [] OTHER ->
           [ok |-> TRUE, analysis |-> NoAnalysis, error |-> ""]

\* The text of the responses that are not an analysis:
\*   no_json    text without braces
\*   bad_json   "{ this is not json }", which JSON.parse rejects; the message
\*              of the SyntaxError is the one of V8 (Node 22)
\*   bad_shape  '{"summary":1}', which DocumentAnalysisSchema.parse rejects
JSON_parse_error ==
    "SyntaxError: Expected property name or '}' in JSON at position 2 (line 1 column 3)"

\* zod: an issue of DocumentAnalysisSchema.parse, and the message of the
\* ZodError, JSON.stringify(issues, null, 2); String() of a ZodError is its
\* message
ZodIssue(expected, got, path, message) ==
    "  {\n"
    \o "    \"code\": \"invalid_type\",\n"
    \o "    \"expected\": \"" \o expected \o "\",\n"
    \o "    \"received\": \"" \o got \o "\",\n"
    \o "    \"path\": [\n"
    \o "      \"" \o path \o "\"\n"
    \o "    ],\n"
    \o "    \"message\": \"" \o message \o "\"\n"
    \o "  }"

RECURSIVE JoinIssues(_, _)
JoinIssues(issues, i) ==
    IF i > Len(issues) THEN ""
    ELSE (IF i > 1 THEN ",\n" ELSE "") \o issues[i] \o JoinIssues(issues, i + 1)

ZodMessage(issues) == "[\n" \o JoinIssues(issues, 1) \o "\n]"

\* the issues of '{"summary":1}': summary is a number and every other key of
\* the schema is missing
BadShapeIssues ==
    << ZodIssue("string", "number", "summary", "Expected string, received number"),
       ZodIssue("string", "undefined", "detailedSummary", "Required"),
       ZodIssue("string", "undefined", "documentType", "Required"),
       ZodIssue("string", "undefined", "dateEarliest", "Required"),
       ZodIssue("string", "undefined", "dateLatest", "Required"),
       ZodIssue("array", "undefined", "contentTags", "Required"),
       ZodIssue("array", "undefined", "entities", "Required"),
       ZodIssue("array", "undefined", "triples", "Required") >>

extractFromDocument(resp) ==
    CASE resp.kind = "api_error" ->
           [ok |-> FALSE, analysis |-> NoAnalysis,
            error |-> "Error: Connection error."]
      [] resp.kind = "not_text" ->
           [ok |-> FALSE, analysis |-> NoAnalysis,
            error |-> "Error: Unexpected response type: tool_use"]
      [] resp.kind = "no_json" ->
           [ok |-> FALSE, analysis |-> NoAnalysis,
            error |-> "Error: JSON parse error: Error: No JSON found in response"]
      [] resp.kind = "bad_json" ->
           [ok |-> FALSE, analysis |-> NoAnalysis,
            error |-> "Error: JSON parse error: " \o JSON_parse_error]
      [] resp.kind = "bad_shape" ->
           [ok |-> FALSE, analysis |-> NoAnalysis,
            error |-> ZodMessage(BadShapeIssues)]
      [] OTHER ->
           [ok |-> TRUE, analysis |-> resp.analysis, error |-> ""]

(***************************************************************************)
(* A processDocument task.  pc names the await the task is suspended at:   *)
(*   queued    in the p-limit queue, not started                           *)
(*   mark      UPDATE ... 'processing'              (line 39)             *)
(*   extract   extractFromDocument                  (line 45)             *)
(*   update    updateDocumentAnalysis               (line 56)             *)
(*   upsert    upsertEntity of entities[i]          (line 69)             *)
(*   link      linkEntityToDocument of entities[i]  (line 76)             *)
(*   subject, object, location                                             *)
(*             upsertEntity of an endpoint of triples[i] that the          *)
(*             entityIdMap does not hold            (lines 88, 98, 110)    *)
(*   insert    insertTriple of triples[i]           (line 122)            *)
(*   catch     UPDATE ... 'failed' of the catch block (line 147)          *)
(*   done, rejected   the promise is settled                               *)
(***************************************************************************)
NoMap == << >>

NoTask ==
    [pc |-> "none", analysis |-> NoAnalysis, i |-> 0, eid |-> NoId,
     idMap |-> NoMap, error |-> ""]

MapHas(m, k) == k \in DOMAIN m
MapSet(m, k, v) == [x \in (DOMAIN m) \cup {k} |-> IF x = k THEN v ELSE m[x]]

Settled(how) == [NoTask EXCEPT !.pc = how]
Thrown(message) == [NoTask EXCEPT !.pc = "catch", !.error = message]

\* The synchronous run of the triple loop up to its next await: the first
\* endpoint of triples[i], from check `from` on (1 subject, 2 object,
\* 3 location), that entityIdMap does not hold; the insert when it holds all.
TripleAwait(tr, m, from) ==
    IF from <= 1 /\ ~MapHas(m, toLowerCase(tr.subject)) THEN "subject"
    ELSE IF from <= 2 /\ ~MapHas(m, toLowerCase(tr.object)) THEN "object"
    ELSE IF tr.location # NULL /\ ~MapHas(m, toLowerCase(tr.location)) THEN "location"
    ELSE "insert"

\* after the entity loop, or after triples[i - 1] is inserted: triple i, or the end
AtTriple(t, i) ==
    IF i > Len(t.analysis.triples)
    THEN Settled("done")
    ELSE [t EXCEPT !.i = i, !.eid = NoId,
                   !.pc = TripleAwait(t.analysis.triples[i], t.idMap, 1)]

\* (variant: the entity loop is left out and the triple loop runs at once)
AtEntitySkipsLoop(t, i) == AtTriple(t, 1)

\* after entities[i - 1] is linked: entity i, or the triple loop
AtEntity(t, i) ==
    IF i > Len(t.analysis.entities)
    THEN AtTriple(t, 1)
    ELSE [t EXCEPT !.i = i, !.pc = "upsert"]

\* (variant: the error is passed on to the caller)
processDocumentCatchRethrows(docs, d, message) ==
    [docs |-> docs, settle |-> "rejected"]

\* the catch block of processDocument: record the failure; the promise resolves
processDocumentCatch(docs, d, message) ==
    [docs |-> markFailed(docs, d, message), settle |-> "done"]

(***************************************************************************)
(* p-limit: at most MAX_WORKERS tasks run; when one settles, the next      *)
(* queued one starts. The queue is in the order of the fetched rows, which *)
(* the SELECT leaves open, so any queued task may be the next.             *)
(***************************************************************************)
Queued(p) == { q \in Docs : tasks[p][q].pc = "queued" }
Running(p) ==
    { q \in Docs : tasks[p][q].pc \notin {"none", "queued", "done", "rejected"} }

\* a limiter that starts a queued task whenever a task takes a step
StepStartsQueued(p, d, t) ==
    IF Queued(p) # {}
    THEN \E q \in Queued(p) :
            tasks' = [tasks EXCEPT ![p][d] = t, ![p][q].pc = "mark"]
    ELSE tasks' = [tasks EXCEPT ![p][d] = t]

\* task d of process p becomes t; if t is settled, p-limit starts a queued task
Step(p, d, t) ==
    IF t.pc \in {"done", "rejected"} /\ Queued(p) # {}
    THEN \E q \in Queued(p) :
            tasks' = [tasks EXCEPT ![p][d] = t, ![p][q].pc = "mark"]
    ELSE tasks' = [tasks EXCEPT ![p][d] = t]

(***************************************************************************)
(* Initial state: schema.sql applied (the root entity seeded with layer 0) *)
(* and the corpus loaded, every document pending.                          *)
(***************************************************************************)
InitCorpus(n) ==
    /\ documents = [d \in 1..n |-> DocumentRow(FullText(d))]
    /\ documents_id_seq = n
    /\ entities = { EntityRow(1, ROOT_NAME, ROOT_TYPE, 0) }
    /\ entities_id_seq = 1
    /\ upsertLog = {}
    /\ received = [d \in Docs |-> NoCall]
    /\ clsPc = "idle"
    /\ clsRuns = 0
    /\ entity_crossref_matches = {}
    /\ entity_matches = {}
    /\ mPc = "idle"
    /\ found = NoMatches
    /\ mRuns = 0
    /\ reviews = 0
    /\ lastRun = NoRun
    /\ document_entities = {}
    /\ linkLog = NoCalls
    /\ changed = TRUE
    /\ clsStart = NoStart
    /\ text = << >>
    /\ truncatedText = << >>
    /\ extractPc = "idle"
    /\ triples = {}
    /\ mainPc = [p \in Procs |-> "fetch"]
    /\ tasks = [p \in Procs |-> [d \in Docs |-> NoTask]]
    /\ runs = [p \in Procs |-> 1]

Init == InitCorpus(NumDocs)
InitSmall == InitCorpus(NumDocsSmall)
InitLayers == InitCorpus(NumDocsLayers)

(***************************************************************************)
(* main() of the orchestrator, process p.                                  *)
(***************************************************************************)
\* lines 166-180: fetch a batch; none: leave the loop; else dispatch every row
\* through limit(), which starts the first MAX_WORKERS of them
Fetch(p) ==
    /\ mainPc[p] = "fetch"
    /\ \E S \in getDocumentsPendingAnalysis(documents, BATCH_SIZE) :
          IF S = {}
          THEN /\ mainPc' = [mainPc EXCEPT ![p] = "done"]
               /\ UNCHANGED tasks
          ELSE /\ mainPc' = [mainPc EXCEPT ![p] = "await"]
               /\ \E R \in SUBSET S :
                     /\ Cardinality(R) = Min(MAX_WORKERS, Cardinality(S))
                     /\ tasks' = [tasks EXCEPT ![p] =
                          [d \in Docs |->
                             IF d \in R THEN [NoTask EXCEPT !.pc = "mark"]
                             ELSE IF d \in S THEN [NoTask EXCEPT !.pc = "queued"]
                             ELSE NoTask]]
    /\ UNCHANGED << dbVars, runs, received, passVars >>

\* lines 178-180 and 195-198: Promise.all settles: rejected as soon as one task
\* is (main().catch then ends the process), fulfilled when all tasks are
AwaitBatch(p) ==
    /\ mainPc[p] = "await"
    /\ IF \E d \in Docs : tasks[p][d].pc = "rejected"
       THEN mainPc' = [mainPc EXCEPT ![p] = "exit1"]
       ELSE /\ \A d \in Docs : tasks[p][d].pc \in {"none", "done"}
            /\ mainPc' = [mainPc EXCEPT ![p] = "pause"]
    /\ tasks' = [tasks EXCEPT ![p] = [d \in Docs |-> NoTask]]
    /\ UNCHANGED << dbVars, runs, received, passVars >>

\* line 183: the pause between batches is over
Pause(p) ==
    /\ mainPc[p] = "pause"
    /\ mainPc' = [mainPc EXCEPT ![p] = "fetch"]
    /\ UNCHANGED << dbVars, tasks, runs, received, passVars >>

(***************************************************************************)
(* processDocument, task of document d in process p: one action per await. *)
(***************************************************************************)
MarkProcessing(p, d) ==
    /\ tasks[p][d].pc = "mark"
    /\ documents' = markProcessing(documents, d)
    /\ Step(p, d, [tasks[p][d] EXCEPT !.pc = "extract"])
    /\ UNCHANGED << documents_id_seq, entVars, linkVars, triples,
                    mainPc, runs, received, passVars >>

\* the LLM call returns one of the responses of RS, or throws
Extract(p, d, RS) ==
    /\ tasks[p][d].pc = "extract"
    /\ \E resp \in RS :
          LET r == extractFromDocument(resp)
          IN  /\ received' = [received EXCEPT ![d] = Call(@, resp.kind, runs[p])]
              /\ Step(p, d, IF r.ok
                             THEN [tasks[p][d] EXCEPT !.pc = "update",
                                                      !.analysis = r.analysis]
                             ELSE Thrown(r.error))
    /\ UNCHANGED << dbVars, mainPc, runs, passVars >>

\* lines 48-62: the dates are parsed and the statement is sent; an Invalid
\* Date is rejected by the DATE column and updateDocumentAnalysis throws
UpdateAnalysis(p, d) ==
    /\ tasks[p][d].pc = "update"
    /\ LET a == tasks[p][d].analysis
       IN  IF InvalidDate \in {ParseDate(a.dateEarliest), ParseDate(a.dateLatest)}
           THEN /\ documents' = documents
                /\ Step(p, d, Thrown("error: invalid input syntax for type date"))
           ELSE /\ documents' = updateDocumentAnalysis(documents, d)
                /\ Step(p, d, AtEntity(tasks[p][d], 1))
    /\ UNCHANGED << documents_id_seq, entVars, linkVars, triples,
                    mainPc, runs, received, passVars >>

UpsertEntityStep(p, d) ==
    /\ tasks[p][d].pc = "upsert"
    /\ LET t == tasks[p][d]
           e == t.analysis.entities[t.i]
           u == upsertEntity(entities, entities_id_seq, e.name, e.type)
       IN  /\ entities' = u.rows
           /\ entities_id_seq' = u.seq
           /\ upsertLog' = upsertLog \cup { Returned(e.name, e.type, u.id, d) }
           /\ Step(p, d, [t EXCEPT !.eid = u.id, !.pc = "link",
                                   !.idMap = MapSet(t.idMap, toLowerCase(e.name), u.id)])
           /\ changed' = (changed \/ u.rows # entities)
    /\ UNCHANGED << documents, documents_id_seq, linkVars, triples, mainPc, runs, received,
                    clsPc, clsRuns, clsStart, matchVars, truncVars >>

LinkStep(p, d) ==
    /\ tasks[p][d].pc = "link"
    /\ document_entities' =
          linkEntityToDocument(document_entities, tasks[p][d].eid, d, 1)
    /\ linkLog' = Called(linkLog, LinkCall(d, tasks[p][d].eid, 1))
    /\ changed' = (changed \/ \A l \in document_entities :
                                 ~(l.document_id = d /\ l.entity_id = tasks[p][d].eid))
    /\ Step(p, d, AtEntity([tasks[p][d] EXCEPT !.eid = NoId], tasks[p][d].i + 1))
    /\ UNCHANGED << documents, documents_id_seq, entVars, triples, mainPc, runs, received,
                    clsPc, clsRuns, clsStart, matchVars, truncVars >>

\* upsert of the endpoint `name`/`type` of the current triple; `from` is the
\* check of the loop body that follows it
TripleEndpoint(p, d, at, name, type, from) ==
    /\ tasks[p][d].pc = at
    /\ LET t  == tasks[p][d]
           tr == t.analysis.triples[t.i]
           u  == upsertEntity(entities, entities_id_seq, name, type)
           m  == MapSet(t.idMap, toLowerCase(name), u.id)
       IN  /\ entities' = u.rows
           /\ entities_id_seq' = u.seq
           /\ upsertLog' = upsertLog \cup { Returned(name, type, u.id, d) }
           /\ Step(p, d, [t EXCEPT !.idMap = m, !.pc = TripleAwait(tr, m, from)])
           /\ changed' = (changed \/ u.rows # entities)
    /\ UNCHANGED << documents, documents_id_seq, linkVars, triples, mainPc, runs, received,
                    clsPc, clsRuns, clsStart, matchVars, truncVars >>

TripleSubject(p, d) ==
    /\ tasks[p][d].pc = "subject"
    /\ LET tr == tasks[p][d].analysis.triples[tasks[p][d].i]
       IN  TripleEndpoint(p, d, "subject", tr.subject, tr.subjectType, 2)

TripleObject(p, d) ==
    /\ tasks[p][d].pc = "object"
    /\ LET tr == tasks[p][d].analysis.triples[tasks[p][d].i]
       IN  TripleEndpoint(p, d, "object", tr.object, tr.objectType, 3)

TripleLocation(p, d) ==
    /\ tasks[p][d].pc = "location"
    /\ LET tr == tasks[p][d].analysis.triples[tasks[p][d].i]
       IN  TripleEndpoint(p, d, "location", tr.location, "location", 4)

TripleInsert(p, d) ==
    /\ tasks[p][d].pc = "insert"
    /\ LET t  == tasks[p][d]
           tr == t.analysis.triples[t.i]
       IN  IF tr.tsValid
           THEN /\ triples' = insertTriple(triples, d,
                                 t.idMap[toLowerCase(tr.subject)],
                                 t.idMap[toLowerCase(tr.object)],
                                 IF tr.location # NULL
                                 THEN t.idMap[toLowerCase(tr.location)] ELSE NoId,
                                 t.i - 1)
                /\ Step(p, d, AtTriple(t, t.i + 1))
           ELSE /\ triples' = triples
                /\ Step(p, d, Thrown("error: invalid input syntax for type date"))
    /\ UNCHANGED << documents, documents_id_seq, entVars, linkVars, mainPc, runs, received, passVars >>

Catch(p, d) ==
    /\ tasks[p][d].pc = "catch"
    /\ LET c == processDocumentCatch(documents, d, tasks[p][d].error)
       IN  /\ documents' = c.docs
           /\ Step(p, d, Settled(c.settle))
    /\ UNCHANGED << documents_id_seq, entVars, linkVars, triples,
                    mainPc, runs, received, passVars >>

\* the steps up to the end of the entity loop, and the catch block
TaskEntities(p, d, RS) ==
    \/ MarkProcessing(p, d)
    \/ Extract(p, d, RS)
    \/ UpdateAnalysis(p, d)
    \/ UpsertEntityStep(p, d)
    \/ LinkStep(p, d)
    \/ Catch(p, d)

\* the steps of the triple loop
TaskTriples(p, d) ==
    \/ TripleSubject(p, d)
    \/ TripleObject(p, d)
    \/ TripleLocation(p, d)
    \/ TripleInsert(p, d)

Main(p) ==
    \/ Fetch(p)
    \/ AwaitBatch(p)
    \/ Pause(p)

Orchestrator(p) ==
    \/ Main(p)
    \/ \E d \in Docs : TaskEntities(p, d, Responses)
    \/ \E d \in Docs : TaskTriples(p, d)

(***************************************************************************)
(* One orchestrator process, one run.                                      *)
(***************************************************************************)
Next == Orchestrator(1)

Spec == Init /\ [][Next]_vars

\* the event loop runs every callback that is ready and every awaited
\* statement and call returns: a step that can be taken is taken
SpecFair == Spec /\ WF_vars(Next)

(***************************************************************************)
(* Two orchestrator processes started against the same database.           *)
(***************************************************************************)
\* (the tasks of both processes interleave; the responses are a call that throws
\* and the analyses without triples, so the triple loop has no step to take)
ResponsesTwo ==
    { r \in Responses :
        \/ r.kind = "api_error"
        \/ r.kind = "ok" /\ r.analysis.triples = << >> }

NextTwo ==
    \E p \in Procs :
       \/ Main(p)
       \/ \E d \in Docs : TaskEntities(p, d, ResponsesTwo)

SpecTwo == InitSmall /\ [][NextTwo]_vars

\* analyses that name an entity again in a triple, in another letter case or
\* under another type
AnalysesEndpoints ==
    { [entities |-> << Ent("Acme", "organization") >>,
       triples  |-> << Tri("J. Smith", "person", "ACME", "organization",
                           "Palm Beach", TRUE) >>,
       dateEarliest |-> NULL, dateLatest |-> NULL],
      [entities |-> << Ent("J. Smith", "person") >>,
       triples  |-> << Tri("J. Smith", "organization", "Acme", "organization",
                           NULL, TRUE) >>,
       dateEarliest |-> NULL, dateLatest |-> NULL] }

ResponsesEndpoints ==
    { [kind |-> "api_error", analysis |-> NoAnalysis] }
    \cup { [kind |-> "ok", analysis |-> a] : a \in AnalysesEndpoints }

NextEndpoints ==
    \/ Main(1)
    \/ \E d \in Docs : TaskEntities(1, d, ResponsesEndpoints)
    \/ \E d \in Docs : TaskTriples(1, d)

SpecEndpoints == InitSmall /\ [][NextEndpoints]_vars

(***************************************************************************)
(* A run that is killed, and the next run of the script.                   *)
(***************************************************************************)
\* the process dies (kill, power loss, out of memory): its tasks are gone,
\* what they wrote to the database stays
Crash(p) ==
    /\ mainPc[p] \in {"await", "pause"}
    /\ mainPc' = [mainPc EXCEPT ![p] = "crashed"]
    /\ tasks' = [tasks EXCEPT ![p] = [d \in Docs |-> NoTask]]
    /\ UNCHANGED << dbVars, runs, received, passVars >>

\* the script is started again after the previous run ended
StartRun(p) ==
    /\ mainPc[p] \in {"done", "exit1", "crashed"}
    /\ runs[p] < MaxRuns
    /\ mainPc' = [mainPc EXCEPT ![p] = "fetch"]
    /\ runs' = [runs EXCEPT ![p] = runs[p] + 1]
    /\ UNCHANGED << dbVars, tasks, received, passVars >>

NextRestart == Orchestrator(1) \/ Crash(1) \/ StartRun(1)

SpecRestart == InitSmall /\ [][NextRestart]_vars

\* runs of the script one after the other, each started after the one before
\* it has ended
NextRerun == Orchestrator(1) \/ StartRun(1)

SpecRerun == InitSmall /\ [][NextRerun]_vars

(***************************************************************************)
(* The ingest script running while the orchestrator runs: each iteration   *)
(* of its loop calls insertDocument with the text of one document of the   *)
(* OCR output, doc.lines.join('\n').  readDocuments yields a document only *)
(* if it has a line that is not blank, so the text is never empty.         *)
(***************************************************************************)
IngestTexts == {"new text", "other text"}

\* d: the row whose doc_id the iteration names; a d the table does not hold
\* stands for a doc_id that is new
Ingest(d, fullText) ==
    /\ documents_id_seq < MaxDocId
    /\ LET r == insertDocument(documents, documents_id_seq, d, fullText)
       IN  /\ documents' = r.docs
           /\ documents_id_seq' = r.seq
    /\ UNCHANGED << entVars, linkVars, triples, orchVars, passVars >>

NextIngest ==
    \/ Orchestrator(1)
    \/ \E d \in Docs : \E t \in IngestTexts : Ingest(d, t)

SpecIngest == InitSmall /\ [][NextIngest]_vars

(***************************************************************************)
(* db.ts: calculateEntityLayers, three UPDATE statements run in order.     *)
(***************************************************************************)
\* SELECT id FROM entities WHERE canonical_name = 'Jeffrey Epstein' AND
\* entity_type = 'person'
epstein(rows) == { r.id : r \in Conflicting(rows, ROOT_NAME, ROOT_TYPE) }

\* SELECT DISTINCT document_id FROM document_entities WHERE entity_id IN ids
DocumentsOf(links, ids) ==
    { l.document_id : l \in { x \in links : x.entity_id \in ids } }

\* SELECT DISTINCT entity_id FROM document_entities WHERE document_id IN ds
EntitiesOf(links, ds) ==
    { l.entity_id : l \in { x \in links : x.document_id \in ds } }

\* (variant: the statements add k to the layer an entity has, as the link
\* upsert adds to mention_count)
SetLayerAccumulates(rows, ids, k) ==
    { IF r.id \in ids
      THEN [r EXCEPT !.layer = IF r.layer = NoLayer THEN k ELSE r.layer + k]
      ELSE r :
        r \in rows }

\* UPDATE entities SET layer = k WHERE id IN ids AND layer IS NULL
SetLayer(rows, ids, k) ==
    { IF r.id \in ids /\ r.layer = NoLayer THEN [r EXCEPT !.layer = k] ELSE r :
        r \in rows }

\* first statement: the entities that share a document with the root
layer1_entities(rows, links) ==
    EntitiesOf(links, DocumentsOf(links, epstein(rows))) \ epstein(rows)

layerPass1(rows, links) == SetLayer(rows, layer1_entities(rows, links), 1)

\* (variant: the candidates of the second statement taken from the documents
\* of the root, as in the first statement)
layer2_candidatesOfRoot(rows, links) ==
    EntitiesOf(links, DocumentsOf(links, epstein(rows)))

\* second statement: the entities that share a document with a layer-1 entity
layer2_candidates(rows, links) ==
    EntitiesOf(links, DocumentsOf(links, { r.id : r \in { x \in rows : x.layer = 1 } }))

layerPass2(rows, links) == SetLayer(rows, layer2_candidates(rows, links), 2)

\* (variant: the third statement without its WHERE clause)
layerPass3Unguarded(rows) == { [r EXCEPT !.layer = 3] : r \in rows }

\* third statement: every entity that is left
layerPass3(rows) == SetLayer(rows, { r.id : r \in rows }, 3)

(***************************************************************************)
(* A call of calculateEntityLayers: one action per awaited statement.      *)
(***************************************************************************)
ClassifyLayer1 ==
    /\ clsPc = "idle"
    /\ clsRuns < MaxClsRuns
    /\ entities' = layerPass1(entities, document_entities)
    /\ clsPc' = "layer2"
    /\ clsRuns' = clsRuns + 1
    /\ clsStart' = [entities |-> entities, links |-> document_entities,
                    clean |-> ~changed]
    /\ UNCHANGED << documents, documents_id_seq, entities_id_seq, upsertLog, linkVars,
                    triples, orchVars, truncVars, changed, matchVars >>

ClassifyLayer2 ==
    /\ clsPc = "layer2"
    /\ entities' = layerPass2(entities, document_entities)
    /\ clsPc' = "layer3"
    /\ UNCHANGED << documents, documents_id_seq, entities_id_seq, upsertLog, linkVars,
                    triples, orchVars, truncVars, clsRuns, changed, clsStart,
                    matchVars >>

ClassifyLayer3 ==
    /\ clsPc = "layer3"
    /\ entities' = layerPass3(entities)
    /\ clsPc' = "done"
    /\ changed' = FALSE
    /\ UNCHANGED << documents, documents_id_seq, entities_id_seq, upsertLog, linkVars,
                    triples, orchVars, truncVars, clsRuns, clsStart,
                    matchVars >>

\* the call has returned
ClassifyReturn ==
    /\ clsPc = "done"
    /\ clsPc' = "idle"
    /\ clsStart' = NoStart
    /\ UNCHANGED << dbVars, orchVars, truncVars, clsRuns, changed, matchVars >>

calculateEntityLayers ==
    \/ ClassifyLayer1
    \/ ClassifyLayer2
    \/ ClassifyLayer3
    \/ ClassifyReturn

(***************************************************************************)
(* The classifier and an orchestrator run on a corpus of three documents   *)
(* whose analyses chain the root to three entities: the statements of the  *)
(* tasks (upsertEntity, line 69, and linkEntityToDocument, line 76) fall   *)
(* before, between and after the statements of calculateEntityLayers.      *)
(***************************************************************************)
\* the entities the analysis of document d lists
Mentioned(d) ==
    CASE d = 1 -> << Ent(ROOT_NAME, ROOT_TYPE), Ent("J. Smith", "person") >>
      [] d = 2 -> << Ent("J. Smith", "person"), Ent("Acme", "organization") >>
      [] OTHER -> << Ent("Acme", "organization"), Ent("Palm Beach", "location") >>

\* the extraction call for document d throws or returns that analysis
ResponsesLayers(d) ==
    { [kind |-> "api_error", analysis |-> NoAnalysis],
      [kind |-> "ok",
       analysis |-> [NoAnalysis EXCEPT !.entities = Mentioned(d)]] }

NextLayers ==
    \/ calculateEntityLayers
    \/ Main(1)
    \/ \E d \in Docs : TaskEntities(1, d, ResponsesLayers(d))

SpecLayers == InitLayers /\ [][NextLayers]_vars

\* calculateEntityLayers called while an orchestrator run is under way: its
\* three statements are separate autocommit statements of one connection pool,
\* and those of the extraction tasks fall between them
NextConcurrent == Orchestrator(1) \/ calculateEntityLayers

SpecConcurrent == InitSmall /\ [][NextConcurrent]_vars

(***************************************************************************)
(* The reference datasets (schema.sql: ppp_loans, fec_contributions,       *)
(* federal_grants), loaded before matching and not written by it: id and   *)
(* the name column the matcher compares (borrower_name, contributor_name,  *)
(* recipient_name).                                                        *)
(***************************************************************************)
RefRow(id, n) == [id |-> id, name |-> n]

ppp_loans ==
    { RefRow(1, "ACME HOLDINGS, LLC"), RefRow(2, "Acme Holdings Inc") }

\* (a contributor has one row per contribution)
fec_contributions ==
    { RefRow(i, "EPSTEIN, JEFFREY") : i \in 1..4 }
    \cup { RefRow(5, "EPSTEIN, JEFFREY E"), RefRow(6, "EPSTEIN, JEFFREY E"),
           RefRow(7, "ACME HOLDINGS LLC") }

federal_grants ==
    { RefRow(1, "Acme Holdings, L.L.C."), RefRow(2, "PALM BEACH") }

\* CREATE TYPE match_source AS ENUM ('ppp', 'fec', 'grants')
match_source == {"ppp", "fec", "grants"}

(***************************************************************************)
(* pg_trgm: similarity(a, b) and the operator %.  A name is lower-cased    *)
(* and cut into words of alphanumeric characters; a word is padded with    *)
(* two blanks in front and one behind; the trigrams of a name are the      *)
(* three-character windows of its padded words; the similarity of two      *)
(* names is the share of the trigrams of either that both have.            *)
(***************************************************************************)
\* the characters of the names in use
Spelling(s) ==
    CASE s = "Jeffrey Epstein" ->
           << "J", "e", "f", "f", "r", "e", "y", " ", "E", "p", "s", "t",
              "e", "i", "n" >>
      [] s = "J. Smith" ->
           << "J", ".", " ", "S", "m", "i", "t", "h" >>
      [] s = "Acme" ->
           << "A", "c", "m", "e" >>
      [] s = "ACME" ->
           << "A", "C", "M", "E" >>
      [] s = "Palm Beach" ->
           << "P", "a", "l", "m", " ", "B", "e", "a", "c", "h" >>
      [] s = "Acme Holdings LLC" ->
           << "A", "c", "m", "e", " ", "H", "o", "l", "d", "i", "n", "g",
              "s", " ", "L", "L", "C" >>
      [] s = "ACME HOLDINGS, LLC" ->
           << "A", "C", "M", "E", " ", "H", "O", "L", "D", "I", "N", "G",
              "S", ",", " ", "L", "L", "C" >>
      [] s = "Acme Holdings Inc" ->
           << "A", "c", "m", "e", " ", "H", "o", "l", "d", "i", "n", "g",
              "s", " ", "I", "n", "c" >>
      [] s = "EPSTEIN, JEFFREY" ->
           << "E", "P", "S", "T", "E", "I", "N", ",", " ", "J", "E", "F",
              "F", "R", "E", "Y" >>
      [] s = "EPSTEIN, JEFFREY E" ->
           << "E", "P", "S", "T", "E", "I", "N", ",", " ", "J", "E", "F",
              "F", "R", "E", "Y", " ", "E" >>
      [] s = "ACME HOLDINGS LLC" ->
           << "A", "C", "M", "E", " ", "H", "O", "L", "D", "I", "N", "G",
              "S", " ", "L", "L", "C" >>
      [] s = "Acme Holdings, L.L.C." ->
           << "A", "c", "m", "e", " ", "H", "o", "l", "d", "i", "n", "g",
              "s", ",", " ", "L", ".", "L", ".", "C", "." >>
      [] s = "PALM BEACH" ->
           << "P", "A", "L", "M", " ", "B", "E", "A", "C", "H" >>
      [] OTHER -> << >>

lower(c) ==
    CASE c = "A" -> "a"
      [] c = "B" -> "b"
      [] c = "C" -> "c"
      [] c = "D" -> "d"
      [] c = "E" -> "e"
      [] c = "F" -> "f"
      [] c = "G" -> "g"
      [] c = "H" -> "h"
      [] c = "I" -> "i"
      [] c = "J" -> "j"
      [] c = "L" -> "l"
      [] c = "M" -> "m"
      [] c = "N" -> "n"
      [] c = "O" -> "o"
      [] c = "P" -> "p"
      [] c = "R" -> "r"
      [] c = "S" -> "s"
      [] c = "T" -> "t"
      [] c = "Y" -> "y"
      [] OTHER -> c

Alnum ==
    { "a", "b", "c", "d", "e", "f", "g", "h", "i", "j", "k", "l", "m", "n",
      "o", "p", "q", "r", "s", "t", "u", "v", "w", "x", "y", "z",
      "0", "1", "2", "3", "4", "5", "6", "7", "8", "9" }

\* the words of cs from position i on; cur is the word being read
RECURSIVE WordsFrom(_, _, _)
WordsFrom(cs, i, cur) ==
    LET ended == IF cur = << >> THEN {} ELSE { cur }
    IN  IF i > Len(cs) THEN ended
        ELSE IF lower(cs[i]) \in Alnum
             THEN WordsFrom(cs, i + 1, Append(cur, lower(cs[i])))
             ELSE ended \cup WordsFrom(cs, i + 1, << >>)

Trigrams(word) ==
    LET padded == << " ", " " >> \o word \o << " " >>
    IN  { SubSeq(padded, i, i + 2) : i \in 1..(Len(padded) - 2) }

show_trgm(s) == UNION { Trigrams(w) : w \in WordsFrom(Spelling(s), 1, << >>) }

\* a score is a fraction num/den (match_score REAL)
Frac(n, d) == [num |-> n, den |-> d]
AtLeast(a, b) == a.num * b.den >= b.num * a.den

similarity(a, b) ==
    LET A == show_trgm(a)
        B == show_trgm(b)
    IN  IF A \cup B = {} THEN Frac(0, 1)
        ELSE Frac(Cardinality(A \cap B), Cardinality(A \cup B))

\* the names in use, and their scores (computed once)
Names ==
    { e.name : e \in { Ent(ROOT_NAME, ROOT_TYPE) } }
    \cup { "Acme Holdings LLC", "Palm Beach", "J. Smith", "Acme", "ACME",
           "ACME HOLDINGS, LLC", "Acme Holdings Inc", "EPSTEIN, JEFFREY",
           "EPSTEIN, JEFFREY E", "ACME HOLDINGS LLC", "Acme Holdings, L.L.C.",
           "PALM BEACH" }

Score == [a \in Names, b \in Names |-> similarity(a, b)]

\* const MATCH_THRESHOLD = 0.7
MATCH_THRESHOLD == Frac(7, 10)
\* pg_trgm.similarity_threshold, the threshold of %, at its default 0.3
similarity_threshold == Frac(3, 10)
\* LIMIT 5 of the lateral subquery
TopK == 5

(***************************************************************************)
(* The matching script: findPPPMatches, findFECMatches, findGrantsMatches, *)
(* saveMatches, updateEntityCrossRefSummary.                               *)
(***************************************************************************)
Match(e, source, r) ==
    [entityId |-> e.id, source |-> source, sourceId |-> r.id,
     score |-> Score[e.canonical_name, r.name]]

\* the rows of the lateral subquery before ORDER BY and LIMIT
Candidates(e, source, table) ==
    { m \in { Match(e, source, r) : r \in table } :
        AtLeast(m.score, similarity_threshold) /\ AtLeast(m.score, MATCH_THRESHOLD) }

\* LIMIT 5 without the ORDER BY: any five of the candidates
IsAnyFive(S, Q) ==
    /\ S \subseteq Q
    /\ Cardinality(S) = Min(TopK, Cardinality(Q))

\* ORDER BY similarity DESC LIMIT 5: S is a result the subquery can return for
\* the candidates Q (rows of equal score come in any order)
IsTop(S, Q) ==
    /\ S \subseteq Q
    /\ Cardinality(S) = Min(TopK, Cardinality(Q))
    /\ \A m \in S : \A q \in Q \ S : AtLeast(m.score, q.score)

\* the results the SELECT can return for the entities of the given types
findMatches(rows, source, table, types) ==
    LET es  == { e \in rows : e.entity_type \in types }
        all == UNION { Candidates(e, source, table) : e \in es }
    IN  { R \in SUBSET all :
            \A e \in es : IsTop({ m \in R : m.entityId = e.id },
                                Candidates(e, source, table)) }

findPPPMatches(rows) ==
    findMatches(rows, "ppp", ppp_loans, {"person", "organization"})

findFECMatches(rows) ==
    findMatches(rows, "fec", fec_contributions, {"person"})

findGrantsMatches(rows) ==
    findMatches(rows, "grants", federal_grants, {"person", "organization"})

MatchRow(id, m) ==
    [id |-> id, entity_id |-> m.entityId, source |-> m.source,
     source_id |-> m.sourceId, match_score |-> m.score,
     match_method |-> "fuzzy", verified |-> FALSE, false_positive |-> FALSE]

\* the position of m in the VALUES list.  The list is in the order of the rows
\* the SELECT returned, which is open; no statement reads the ids, which differ
\* between the orders by a renaming only, so the rows are numbered in one order.
Position(m, matches) ==
    Cardinality({ x \in matches :
                    \/ x.entityId < m.entityId
                    \/ x.entityId = m.entityId /\ x.sourceId <= m.sourceId })

\* INSERT INTO entity_crossref_matches (...) VALUES ... ON CONFLICT DO NOTHING.
\* The table has no unique constraint but the primary key id, which the
\* sequence fills: no row is in conflict.  (rows are never deleted: the sequence
\* is at the number of rows)
saveMatches(rows, matches) ==
    IF matches = {} THEN rows
    ELSE rows \cup { MatchRow(Cardinality(rows) + Position(m, matches), m) :
                       m \in matches }

\* jsonb_agg(jsonb_build_object('id', ..., 'score', m.match_score)) over the rows
\* S: NULL for no row, else the array, given by its entries and how many times
\* each is in it (the other fields of an entry are columns of the reference row
\* `id`)
jsonb_agg(S) ==
    [isNull  |-> S = {},
     entries |-> { [id |-> k.id, score |-> k.score,
                    count |-> Cardinality({ r \in S : /\ r.source_id = k.id
                                                      /\ r.match_score = k.score })] :
                   k \in { [id |-> r.source_id, score |-> r.match_score] : r \in S } }]

\* the column default '[]'
EmptyArray == [isNull |-> FALSE, entries |-> {}]

SummaryCell(e, source, v) ==
    [entity_id |-> e, source |-> source, isNull |-> v.isNull, entries |-> v.entries]

\* the aggregate without AND NOT m.false_positive
updateSummaryKeepsFlagged(cells, rows, matchRows, table, source) ==
    LET of(e) == { m \in matchRows : m.entity_id = e /\ m.source = source }
        hit   == { e.id : e \in { x \in rows : of(x.id) # {} } }
    IN  { c \in cells : ~(c.source = source /\ c.entity_id \in hit) }
        \cup { SummaryCell(e, source,
                 jsonb_agg({ m \in of(e) : \E r \in table : r.id = m.source_id })) :
               e \in hit }

\* UPDATE entities e SET <source>_matches = (SELECT jsonb_agg(...) ... AND NOT
\* m.false_positive) WHERE EXISTS (... m.entity_id = e.id AND m.source = <source>)
updateSummary(cells, rows, matchRows, table, source) ==
    LET of(e) == { m \in matchRows : m.entity_id = e /\ m.source = source }
        hit   == { e.id : e \in { x \in rows : of(x.id) # {} } }
    IN  { c \in cells : ~(c.source = source /\ c.entity_id \in hit) }
        \cup { SummaryCell(e, source,
                 jsonb_agg({ m \in of(e) :
                               /\ ~m.false_positive
                               /\ \E r \in table : r.id = m.source_id })) :
               e \in hit }

(***************************************************************************)
(* main() of the matching script: one action per awaited statement.        *)
(***************************************************************************)
MatcherFindPPP ==
    /\ mPc = "idle"
    /\ mRuns < MaxMatcherRuns
    /\ \E R \in findPPPMatches(entities) : found' = [NoMatches EXCEPT !.ppp = R]
    /\ mPc' = "findFEC"
    /\ mRuns' = mRuns + 1
    /\ UNCHANGED << dbVars, orchVars, truncVars, clsVars, entity_crossref_matches,
                    entity_matches, reviews, lastRun >>

MatcherFindFEC ==
    /\ mPc = "findFEC"
    /\ \E R \in findFECMatches(entities) : found' = [found EXCEPT !.fec = R]
    /\ mPc' = "findGrants"
    /\ UNCHANGED << dbVars, orchVars, truncVars, clsVars, entity_crossref_matches,
                    entity_matches, mRuns, reviews, lastRun >>

MatcherFindGrants ==
    /\ mPc = "findGrants"
    /\ \E R \in findGrantsMatches(entities) : found' = [found EXCEPT !.grants = R]
    /\ mPc' = "savePPP"
    /\ UNCHANGED << dbVars, orchVars, truncVars, clsVars, entity_crossref_matches,
                    entity_matches, mRuns, reviews, lastRun >>

MatcherSave(at, matches, next) ==
    /\ mPc = at
    /\ entity_crossref_matches' = saveMatches(entity_crossref_matches, matches)
    /\ mPc' = next
    /\ UNCHANGED << dbVars, orchVars, truncVars, clsVars, entity_matches, found, mRuns,
                    reviews, lastRun >>

MatcherSavePPP == MatcherSave("savePPP", found.ppp, "saveFEC")
MatcherSaveFEC == MatcherSave("saveFEC", found.fec, "saveGrants")
MatcherSaveGrants == MatcherSave("saveGrants", found.grants, "summaryPPP")

MatcherSummary(at, table, source, next) ==
    /\ mPc = at
    /\ entity_matches' = updateSummary(entity_matches, entities,
                                       entity_crossref_matches, table, source)
    /\ mPc' = next
    /\ UNCHANGED << dbVars, orchVars, truncVars, clsVars, entity_crossref_matches, found,
                    mRuns, reviews, lastRun >>

MatcherSummaryPPP == MatcherSummary("summaryPPP", ppp_loans, "ppp", "summaryFEC")
MatcherSummaryFEC ==
    MatcherSummary("summaryFEC", fec_contributions, "fec", "summaryGrants")
MatcherSummaryGrants ==
    MatcherSummary("summaryGrants", federal_grants, "grants", "done")

\* await close(): the script ends
MatcherClose ==
    /\ mPc = "done"
    /\ mPc' = "idle"
    /\ found' = NoMatches
    /\ lastRun' = [entities |-> entities, rows |-> entity_crossref_matches,
                   summary |-> entity_matches, reviews |-> reviews]
    /\ UNCHANGED << dbVars, orchVars, truncVars, clsVars, entity_crossref_matches,
                    entity_matches, mRuns, reviews >>

Matcher ==
    \/ MatcherFindPPP
    \/ MatcherFindFEC
    \/ MatcherFindGrants
    \/ MatcherSavePPP
    \/ MatcherSaveFEC
    \/ MatcherSaveGrants
    \/ MatcherSummaryPPP
    \/ MatcherSummaryFEC
    \/ MatcherSummaryGrants
    \/ MatcherClose

(***************************************************************************)
(* A reviewer sets a verification flag of a match row.  The repository has *)
(* no code for it (the flags are columns of the schema); the step is taken *)
(* from the specification: "verification flags are the only post-creation  *)
(* mutation path, performed by a human reviewer".                          *)
(***************************************************************************)
ReviewerFlag(id, falsePositive) ==
    /\ reviews < MaxReviews
    /\ \E r \in entity_crossref_matches :
          /\ r.id = id
          /\ entity_crossref_matches' =
                (entity_crossref_matches \ { r })
                \cup { IF falsePositive THEN [r EXCEPT !.false_positive = TRUE]
                                        ELSE [r EXCEPT !.verified = TRUE] }
    /\ reviews' = reviews + 1
    /\ UNCHANGED << dbVars, orchVars, truncVars, clsVars, entity_matches, mPc, found, mRuns,
                    lastRun >>

\* what extraction receives for the documents while the matcher is in use:
\* the call throws, or the analysis names an entity the matcher compares
MatchEntities(d) ==
    IF d = 1 THEN << Ent("Acme Holdings LLC", "organization") >>
    ELSE << Ent("Palm Beach", "location") >>

ResponsesMatch(d) ==
    { [kind |-> "api_error", analysis |-> NoAnalysis],
      [kind |-> "ok", analysis |-> [NoAnalysis EXCEPT !.entities = MatchEntities(d)]] }

\* (the matcher is an offline pass that runs without preemption: reviewers set
\* flags between its runs; the orchestrator goes on writing entities)
NextMatch ==
    \/ Matcher
    \/ Main(1)
    \/ \E d \in Docs : TaskEntities(1, d, ResponsesMatch(d))
    \/ /\ mPc = "idle"
       /\ \E r \in entity_crossref_matches :
             \E fp \in BOOLEAN : ReviewerFlag(r.id, fp)

SpecMatch == InitSmall /\ [][NextMatch]_vars

(***************************************************************************)
(* extractFromDocument: the text sent for extraction.  A text is the       *)
(* sequence of its characters (the code units String.length counts).       *)
(***************************************************************************)
\* the budget (const maxChars = 100000), scaled down
maxChars == 3
\* the longest document text drawn
MaxTextLen == 5
Alphabet == {"a", "b"}
Texts == UNION { [1..n -> Alphabet] : n \in 0..MaxTextLen }

\* '\n\n[TRUNCATED - document continues...]'
TRUNCATED ==
    << "\n", "\n", "[", "T", "R", "U", "N", "C", "A", "T", "E", "D", " ", "-",
       " ", "d", "o", "c", "u", "m", "e", "n", "t", " ", "c", "o", "n", "t",
       "i", "n", "u", "e", "s", ".", ".", ".", "]" >>

\* String.prototype.slice(start, end) for 0 <= start <= end
slice(s, start, end) == SubSeq(s, start + 1, Min(end, Len(s)))

\* text.length >= maxChars in place of text.length > maxChars
truncateAtBudget(t) ==
    IF Len(t) >= maxChars THEN slice(t, 0, maxChars) \o TRUNCATED ELSE t

\* text.length > maxChars ? text.slice(0, maxChars) + '...' : text
truncate(t) ==
    IF Len(t) > maxChars THEN slice(t, 0, maxChars) \o TRUNCATED ELSE t

\* extractFromDocument(docId, text) is called with a document's text
ExtractCalled ==
    /\ extractPc = "idle"
    /\ \E t \in Texts : text' = t
    /\ extractPc' = "called"
    /\ UNCHANGED << dbVars, orchVars, clsVars, matchVars, truncatedText >>

\* const truncatedText = ..., the content of the message sent
ExtractTruncate ==
    /\ extractPc = "called"
    /\ truncatedText' = truncate(text)
    /\ extractPc' = "sent"
    /\ UNCHANGED << dbVars, orchVars, clsVars, matchVars, text >>

NextTruncate == ExtractCalled \/ ExtractTruncate

SpecTruncate == InitSmall /\ [][NextTruncate]_vars

(***************************************************************************)
(* Properties.                                                             *)
(***************************************************************************)
Status(d) == documents[d].analysis_status
HasText(d) == documents[d].full_text # NULL
Settling == {"none", "done", "rejected"}
\* the task of d in process p has claimed d and has not settled
Processing(p, d) == tasks[p][d].pc \notin (Settling \cup {"queued", "mark"})

\* C1: for every (canonicalName, type) pair that upsertEntity was called with,
\* by whatever tasks and in whatever interleaving, the entity table holds
\* exactly one row, and every one of the calls returned the id of that row.
C1_OneRowOneId ==
    /\ \A l \in upsertLog :
          /\ Cardinality(Conflicting(entities, l.canonical_name, l.entity_type)) = 1
          /\ \A r \in Conflicting(entities, l.canonical_name, l.entity_type) :
                r.id = l.id
    /\ \A r1, r2 \in entities :
          (r1.canonical_name = r2.canonical_name /\ r1.entity_type = r2.entity_type)
             => r1 = r2

\* two tasks of one run are both between their upsertEntity of
\* ("J. Smith", person) and the link that follows, holding the same id
C1_Witness ==
    \E d1, d2 \in Docs :
       /\ d1 # d2
       /\ tasks[1][d1].pc = "link" /\ tasks[1][d2].pc = "link"
       /\ tasks[1][d1].eid = tasks[1][d2].eid
       /\ \E r \in entities :
             /\ r.id = tasks[1][d1].eid
             /\ r.canonical_name = "J. Smith" /\ r.entity_type = "person"

\* C2: no document is being processed by two processing tasks at the same
\* time, also when two orchestrator processes run against the same store.
C2_NoDoubleProcessing ==
    \A d \in Docs : ~(Processing(1, d) /\ Processing(2, d))

\* C3: within one orchestrator run no document's analysis_status goes back:
\* none becomes pending that was processing, complete or failed, and none
\* becomes processing that was complete or failed.
C3_StatusForward ==
    [][ \A d \in DOMAIN documents :
          /\ documents'[d].analysis_status = "pending"
                => documents[d].analysis_status = "pending"
          /\ documents'[d].analysis_status = "processing"
                => documents[d].analysis_status \in {"pending", "processing"}
      ]_vars

\* the run is over with one document complete, one that failed in extraction
\* and one that failed after it had been set complete (its entities were
\* upserted), one of the three ingested while the run was under way or before
C3_Witness ==
    /\ mainPc[1] = "done"
    /\ \E d \in DOMAIN documents : Status(d) = "complete"
    /\ \E d \in DOMAIN documents :
          Status(d) = "failed" /\ documents[d].error_message = "Error: Connection error."
    /\ \E d \in DOMAIN documents :
          /\ Status(d) = "failed"
          /\ documents[d].error_message = "error: invalid input syntax for type date"
          /\ \E r \in upsertLog : r.document_id = d

\* C4: a document left in status processing by a run that crashed is claimed
\* and processed again by the next run: when that run has ended, the document
\* is no longer processing.
C4_RestartSafe ==
    (runs[1] >= 2 /\ mainPc[1] = "done")
       => \A d \in DOMAIN documents : Status(d) # "processing"

\* C5: a document's failure never aborts the batch or the run: the run never
\* ends on a rejected task, and when it ends every document with text, of
\* every batch, is complete or failed.
C5_FailureIsolated ==
    /\ mainPc[1] # "exit1"
    /\ mainPc[1] = "done"
          => \A d \in DOMAIN documents :
                HasText(d) => Status(d) \in {"complete", "failed"}

\* the run is over; the extraction of one document failed, and every other
\* document with text (the batch holds BATCH_SIZE of them at most) is complete
C5_Witness ==
    /\ mainPc[1] = "done"
    /\ Cardinality({ d \in DOMAIN documents : HasText(d) }) > BATCH_SIZE
    /\ \E f \in DOMAIN documents :
          /\ received[f].kind \in {"api_error", "no_json", "bad_shape"}
          /\ Status(f) = "failed"
          /\ \A d \in DOMAIN documents \ {f} : HasText(d) => Status(d) = "complete"

\* C6: when the response for a document is not parseable JSON or does not
\* match the analysis schema, no entity is upserted and no document-entity
\* link or triple is written for the document, and once its task has settled
\* the document is failed with a non-empty error string.
Malformed == {"no_json", "bad_json", "bad_shape"}

C6_MalformedFails ==
    \A d \in DOMAIN documents :
       received[d].kind \in Malformed =>
          /\ \A l \in upsertLog : l.document_id # d
          /\ \A r \in document_entities : r.document_id # d
          /\ \A r \in triples : r.document_id # d
          /\ tasks[1][d].pc \in Settling =>
                /\ Status(d) = "failed"
                /\ documents[d].error_message \notin {NULL, ""}

\* one document got text that is no JSON and one got JSON of the wrong shape;
\* both tasks have settled, and a third document has its entities written
C6_Witness ==
    \E d1, d2, d3 \in DOMAIN documents :
       /\ received[d1].kind = "no_json" /\ tasks[1][d1].pc \in Settling
       /\ Status(d1) = "failed"
       /\ received[d2].kind = "bad_shape" /\ tasks[1][d2].pc \in Settling
       /\ Status(d2) = "failed"
       /\ received[d3].kind = "ok" /\ \E r \in document_entities : r.document_id = d3

\* Co-occurrence distance from the root: entities are adjacent when a document
\* is linked to both.
Adjacent(S) == EntitiesOf(document_entities, DocumentsOf(document_entities, S))

RECURSIVE Within(_)
Within(k) ==
    IF k = 0 THEN epstein(entities)
    ELSE Within(k - 1) \cup Adjacent(Within(k - 1))

\* the number of hops of the shortest path from the root to entity e; an entity
\* with no path is further than any entity with one
Distance(e) ==
    LET n == Cardinality(entities)
    IN  IF e \notin Within(n) THEN n + 3
        ELSE CHOOSE k \in 0..n :
                e \in Within(k) /\ \A j \in 0..(k - 1) : e \notin Within(j)

NonRoot == { r \in entities : r.id \notin epstein(entities) }
LayerIsDistance == \A r \in NonRoot : r.layer = Min(3, Distance(r.id))

\* the entities and links are those the running call began with: no entity
\* and no link has been added since
Pairs(links) == { << l.document_id, l.entity_id >> : l \in links }
SameGraph ==
    /\ { r.id : r \in entities } = { r.id : r \in clsStart.entities }
    /\ Pairs(document_entities) = Pairs(clsStart.links)

\* C7: after a classifier run that began with the layer of every non-root
\* entity null (the first run) and ran on one graph (no entity or link was
\* added while it ran), every non-root entity's layer is min(3, d), d its
\* shortest co-occurrence distance from the root; none is left null.
C7_FirstRunDistance ==
    (clsPc = "done" /\ clsRuns = 1 /\ SameGraph) => LayerIsDistance

\* the first run is over with A that shares a document with the root, B that
\* shares a document with A only, and C that is linked to no document:
\* layers 1, 2 and 3
C7_Witness ==
    /\ clsPc = "done" /\ clsRuns = 1 /\ SameGraph
    /\ \E a, b, c \in NonRoot :
          /\ Distance(a.id) = 1 /\ a.layer = 1
          /\ Distance(b.id) = 2 /\ b.layer = 2
          /\ c.id \notin EntitiesOf(document_entities, DOMAIN documents)
          /\ c.layer = 3

\* C8: no step overwrites a layer that is set: an entity whose layer is not
\* null keeps that layer through every statement of the classifier (and
\* through every extraction write), the root its layer 0.
C8_LayerWrittenOnce ==
    [][ \A r \in entities :
          r.layer # NoLayer =>
             \E q \in entities' : q.id = r.id /\ q.layer = r.layer
      ]_vars

\* a second run is over with entities of the layers 0, 1, 2 and 3, one of them
\* three hops from the root (a chain over three documents) with layer 3
C8_Witness ==
    /\ clsPc = "done" /\ clsRuns = 2
    /\ \A k \in 0..3 : \E r \in entities : r.layer = k
    /\ \E r \in NonRoot : r.layer = 3 /\ Distance(r.id) = 3

\* C9: after every classifier run that ran on one graph, whatever extraction
\* writes and classifier runs came before it, every non-root entity's layer
\* is min(3, d) for the co-occurrence distance d in the store at that time.
C9_RerunRecomputes ==
    (clsPc = "done" /\ SameGraph) => LayerIsDistance

\* C10: in every reachable state, after any number of matcher runs and reviewer
\* flag changes, the match table holds at most one row per
\* (entity, source, source record id).
C10_OneRowPerMatch ==
    \A r1, r2 \in entity_crossref_matches :
       (/\ r1.entity_id = r2.entity_id
        /\ r1.source = r2.source
        /\ r1.source_id = r2.source_id) => r1 = r2

(***************************************************************************)
(* The matching script, run again.                                         *)
(***************************************************************************)
\* C11: when a matcher run ends and neither the entities nor the reviewer
\* flags have changed since the end of the run before it, the match table and
\* the summary columns are what they were at the end of that run: the second
\* run has inserted no row.
C11_MatcherIdempotent ==
    (/\ mPc = "done"
     /\ mRuns >= 2
     /\ entities = lastRun.entities
     /\ reviews = lastRun.reviews)
    => /\ entity_crossref_matches = lastRun.rows
       /\ entity_matches = lastRun.summary

\* the summary list of entity e for a source: the column, '[]' until written
SummaryOf(e, source) ==
    LET c == { x \in entity_matches : x.entity_id = e /\ x.source = source }
    IN  IF c = {} THEN EmptyArray
        ELSE LET x == CHOOSE x \in c : TRUE
             IN  [isNull |-> x.isNull, entries |-> x.entries]

\* how many times the entry (id, score) is in the summary list
EntryCount(e, source, id, score) ==
    LET xs == { x \in SummaryOf(e, source).entries : x.id = id /\ x.score = score }
    IN  IF xs = {} THEN 0 ELSE (CHOOSE x \in xs : TRUE).count

\* the match rows of entity e and a source that are not marked false positive
LiveRows(e, source) ==
    { r \in entity_crossref_matches :
        r.entity_id = e /\ r.source = source /\ ~r.false_positive }

\* C12: when a matcher run has completed, for every entity and each of the
\* three sources the summary list holds one entry for every match row of the
\* entity and source that is not marked false positive (an entry as many times
\* as there are such rows for its record and score) and no other entry,
\* whatever the list held before the run.
C12_SummaryRebuilt ==
    mPc = "done" =>
      \A e \in entities : \A source \in match_source :
         /\ \A r \in LiveRows(e.id, source) :
               EntryCount(e.id, source, r.source_id, r.match_score)
                 = Cardinality({ q \in LiveRows(e.id, source) :
                                   /\ q.source_id = r.source_id
                                   /\ q.match_score = r.match_score })
         /\ \A x \in SummaryOf(e.id, source).entries :
               /\ x.count > 0
               /\ \E r \in LiveRows(e.id, source) :
                     r.source_id = x.id /\ r.match_score = x.score

\* a second run has completed after a reviewer marked a row of the first run
\* false positive: the entity's list for that source, which held the row's
\* entry after the first run, holds it for the rows not marked only
C12_Witness ==
    /\ mPc = "done"
    /\ mRuns = 2
    /\ \E r \in entity_crossref_matches :
          /\ r.false_positive
          /\ \E c \in lastRun.summary :
                /\ c.entity_id = r.entity_id
                /\ c.source = r.source
                /\ \E x \in c.entries : x.id = r.source_id /\ x.count = 1
          /\ EntryCount(r.entity_id, r.source, r.source_id, r.match_score) = 1

\* the reference table of a source
ReferenceOf(source) ==
    CASE source = "ppp"    -> ppp_loans
      [] source = "fec"    -> fec_contributions
      [] source = "grants" -> federal_grants

\* the match rows of entity e and a source that the step inserts
Inserted(e, source) ==
    { r \in entity_crossref_matches' :
        /\ r.entity_id = e /\ r.source = source
        /\ \A q \in entity_crossref_matches : q.id # r.id }

\* the reference records of a source that score 0.7 or more against the name
Qualifying(e, source) ==
    { ref \in ReferenceOf(source) :
        AtLeast(Score[e.canonical_name, ref.name], Frac(7, 10)) }

\* C13: the rows one save step of a matcher run inserts for an entity and a
\* source are the top 5 of the reference records scoring 0.7 or more: at most
\* 5 rows, as many as there are such records up to 5, each of method fuzzy
\* with the score of its record, which is 0.7 or more, and no record left out
\* scores 0.7 or more and strictly more than a row inserted.  (An entity with
\* every score below 0.7 has no such record and so gets no row.)
C13_TopK ==
    [][ \A e \in entities : \A source \in match_source :
          LET new == Inserted(e.id, source)
              ids == { r.source_id : r \in new }
              Q   == Qualifying(e, source)
          IN  /\ Cardinality(new) <= 5
              /\ \A r \in new :
                    /\ r.match_method = "fuzzy"
                    /\ AtLeast(r.match_score, Frac(7, 10))
                    /\ \E ref \in ReferenceOf(source) :
                          /\ ref.id = r.source_id
                          /\ r.match_score = Score[e.canonical_name, ref.name]
              /\ new # {} =>
                    /\ Cardinality(new) = Min(5, Cardinality(Q))
                    /\ \A ref \in Q : ref.id \notin ids =>
                          \A r \in new :
                             AtLeast(r.match_score, Score[e.canonical_name, ref.name])
              /\ Q = {} => new = {}
      ]_vars

\* the FEC matches of the first run have been saved: six records score 0.7 or
\* more against the seeded entity (four 1.0, two below), five rows are in the
\* table, and one of the two lower records is among them while the other is out
C13_Witness ==
    /\ mRuns = 1
    /\ mPc = "saveGrants"
    /\ \E e \in entities :
          /\ e.canonical_name = ROOT_NAME
          /\ Cardinality(Qualifying(e, "fec")) = 6
          /\ Cardinality({ r \in entity_crossref_matches :
                             r.entity_id = e.id /\ r.source = "fec" }) = 5
          /\ \E r \in entity_crossref_matches :
                r.entity_id = e.id /\ r.source = "fec" /\ r.source_id = 5
          /\ \A r \in entity_crossref_matches :
                ~(r.entity_id = e.id /\ r.source = "fec" /\ r.source_id = 6)

\* C14: when a matcher run starts with an entity named "Acme Holdings LLC" in
\* the store, the PPP query, whose table holds a borrower "Acme Holdings Inc",
\* returns that record for the entity with a score above 0.7 (the match the
\* run then saves).
C14_AcmeMatches ==
    (mPc = "findFEC" /\ entities = lastRun.entities /\ mRuns >= 2) =>
       \A e \in entities :
          (e.canonical_name = "Acme Holdings LLC" /\ e.entity_type = "organization")
          => \E m \in found.ppp : \E ref \in ppp_loans :
                /\ ref.name = "Acme Holdings Inc"
                /\ m.entityId = e.id
                /\ m.sourceId = ref.id
                /\ AtLeast(m.score, MATCH_THRESHOLD)

(***************************************************************************)
(* The link table.                                                         *)
(***************************************************************************)
RECURSIVE SumOfCalls(_, _)
SumOfCalls(log, S) ==
    IF S = {} THEN 0
    ELSE LET c == CHOOSE c \in S : TRUE
         IN  log[c] * c.mention_count + SumOfCalls(log, S \ {c})

\* the sum of the mention deltas of the calls made for (document d, entity e)
Deltas(d, e) ==
    SumOfCalls(linkLog, { c \in DOMAIN linkLog :
                            c.document_id = d /\ c.entity_id = e })

LinkRows(d, e) ==
    { r \in document_entities : r.document_id = d /\ r.entity_id = e }

\* C15: in every reachable state, whatever calls of linkEntityToDocument the
\* tasks of the orchestrator processes have made and in whatever order, every
\* (document, entity) pair a call was made for has exactly one row in
\* document_entities, whose mention_count is the sum of the mention deltas of
\* the calls for the pair, and there is no row for any other pair.
C15_OneLinkRow ==
    /\ \A c \in DOMAIN linkLog :
          /\ Cardinality(LinkRows(c.document_id, c.entity_id)) = 1
          /\ \A r \in LinkRows(c.document_id, c.entity_id) :
                r.mention_count = Deltas(c.document_id, c.entity_id)
    /\ \A r \in document_entities :
          \E c \in DOMAIN linkLog :
             c.document_id = r.document_id /\ c.entity_id = r.entity_id

\* two calls were made for one pair (the tasks of two processes for the same
\* document linked the same entity): one row, with mention_count 2
C15_Witness ==
    \E c \in DOMAIN linkLog :
       /\ linkLog[c] = 2
       /\ Cardinality(LinkRows(c.document_id, c.entity_id)) = 1
       /\ \E r \in LinkRows(c.document_id, c.entity_id) : r.mention_count = 2

(***************************************************************************)
(* The text sent for extraction.                                           *)
(***************************************************************************)
\* s ends with the truncation marker
HasMarker(s) ==
    /\ Len(s) >= Len(TRUNCATED)
    /\ SubSeq(s, Len(s) - Len(TRUNCATED) + 1, Len(s)) = TRUNCATED

\* C16: for every document text, the text sent for extraction ends with the
\* truncation marker exactly when the document text is longer than maxChars;
\* a longer text is sent as its first maxChars characters followed by the
\* marker, and a text of length maxChars or less is sent as it is.
C16_TruncationMarker ==
    extractPc = "sent" =>
       /\ HasMarker(truncatedText) <=> Len(text) > maxChars
       /\ Len(text) > maxChars =>
             truncatedText = SubSeq(text, 1, maxChars) \o TRUNCATED
       /\ Len(text) <= maxChars => truncatedText = text

\* a text one character over the budget has been sent: its first maxChars
\* characters and the marker
C16_Witness ==
    /\ extractPc = "sent"
    /\ Len(text) = maxChars + 1
    /\ Len(truncatedText) = maxChars + Len(TRUNCATED)
    /\ HasMarker(truncatedText)

(***************************************************************************)
(* The orchestrator's worker limit and termination.                        *)
(***************************************************************************)
\* the documents whose extraction call is in flight in process p
InFlight(p) == { d \in Docs : tasks[p][d].pc = "extract" }

\* C17: in every reachable state of an orchestrator run, the number of
\* documents whose extraction call is in flight is at most MAX_WORKERS, also
\* when the batch fetched holds more documents than that.
C17_WorkerLimit ==
    \A p \in Procs : Cardinality(InFlight(p)) <= MAX_WORKERS

\* MAX_WORKERS extraction calls are in flight while a document of the batch
\* waits in the limiter's queue
C17_Witness ==
    /\ Cardinality(InFlight(1)) = MAX_WORKERS
    /\ Queued(1) # {}

\* every document that has text has reached complete or failed
AllSettled ==
    \A d \in DOMAIN documents :
       HasText(d) => Status(d) \in {"complete", "failed"}

\* C18: an orchestrator run over the corpus, with no document added while it
\* runs, ends (main leaves its loop), and from then on no document that has
\* text is pending or processing: each is complete or failed.
C18_RunTerminates ==
    <>[](mainPc[1] = "done" /\ AllSettled)

\* the run has ended after more than one batch with documents of both
\* outcomes, and the document without text is still pending
C18_Witness ==
    /\ mainPc[1] = "done"
    /\ AllSettled
    /\ Cardinality({ d \in DOMAIN documents : HasText(d) }) > BATCH_SIZE
    /\ \E d \in DOMAIN documents : Status(d) = "complete"
    /\ \E d \in DOMAIN documents : Status(d) = "failed"
    /\ \E d \in DOMAIN documents : ~HasText(d) /\ Status(d) = "pending"

(***************************************************************************)
(* Failed documents and the next run.                                      *)
(***************************************************************************)
\* C19: a document whose extraction call failed (network, timeout or provider
\* error) gets no second call in the run in which it failed, and when the
\* next run of the orchestrator has ended, that run has made an extraction
\* call for it: the last call for the document is one of the latest run.
C19_FailedRetriedNextRun ==
    /\ \A d \in Docs : received[d].calls <= 1
    /\ (runs[1] >= 2 /\ mainPc[1] = "done") =>
          \A d \in DOMAIN documents :
             (Status(d) = "failed" /\ received[d].kind = "api_error")
             => received[d].run = runs[1]

(***************************************************************************)
(* The layer classifier, run again.                                        *)
(***************************************************************************)
\* C20: in a call of calculateEntityLayers made after an earlier call has
\* run its statements, with no entity and no document-entity link added
\* since, no statement changes the layer of an entity: every layer stays at
\* the value the earlier call left.
C20_ClassifyIdempotent ==
    [][ (clsPc' # clsPc /\ clsPc' # "idle" /\ clsStart'.clean /\ ~changed)
           => entities' = entities ]_vars

\* the second call has run its three statements on the graph the first call
\* left (a chain of three documents, with entities of the layers 1, 2 and 3)
C20_Witness ==
    /\ clsPc = "done" /\ clsRuns = 2
    /\ clsStart.clean /\ SameGraph
    /\ \A k \in 1..3 : \E r \in entities : r.layer = k

(***************************************************************************)
(* The root.                                                               *)
(***************************************************************************)
\* the entities of layer 0
Layer0 == { r \in entities : r.layer = 0 }

\* C21: in every reachable state, whatever upsertEntity calls (also ones that
\* name the root) and calculateEntityLayers statements have run, exactly one
\* entity has layer 0, and it is the seeded row of the root.
C21_OneRoot ==
    /\ Cardinality(Layer0) = 1
    /\ \A r \in Layer0 :
          r.id = 1 /\ r.canonical_name = ROOT_NAME /\ r.entity_type = ROOT_TYPE

\* a task has called upsertEntity with the root's name and type and linked the
\* root to its document, and a call of calculateEntityLayers that began after
\* that has run its three statements: the root has layer 0, others have theirs
C21_Witness ==
    /\ clsPc = "done"
    /\ \E l \in upsertLog :
          l.canonical_name = ROOT_NAME /\ l.entity_type = ROOT_TYPE /\ l.id = 1
    /\ \E l \in clsStart.links : l.entity_id = 1
    /\ \E r \in entities : r.id = 1 /\ r.layer = 0
    /\ \E r \in entities : r.layer = 3

(***************************************************************************)
(* The classifier and the extraction writes that fall between its          *)
(* statements.                                                             *)
(***************************************************************************)
\* what the three statements write on the entities and links the call began
\* with
OnSnapshot ==
    layerPass3(layerPass2(layerPass1(clsStart.entities, clsStart.links),
                          clsStart.links))

\* C22: when a call of calculateEntityLayers has run its three statements,
\* every entity that existed when the call began has the layer the three
\* statements give it on the entities and links of that moment, and every
\* entity created since has no layer, whatever extraction tasks wrote between
\* the statements.
C22_ReadConsistent ==
    clsPc = "done" =>
       \A r \in entities :
          IF \E q \in clsStart.entities : q.id = r.id
          THEN \E q \in OnSnapshot : q.id = r.id /\ q.layer = r.layer
          ELSE r.layer = NoLayer

WritesEntityOf(d) ==
    \/ \E l \in upsertLog' : l.document_id = d /\ l \notin upsertLog
    \/ \E c \in DOMAIN linkLog' :
          /\ c.document_id = d
          /\ (c \notin DOMAIN linkLog \/ linkLog'[c] # linkLog[c])

\* the step inserts a triple of document d
WritesTripleOf(d) ==
    \E t \in triples' : t.document_id = d /\ t \notin triples

\* entity e of the analysis of d has been upserted and linked to d
UpsertedAndLinked(e, d) ==
    \E l \in upsertLog :
       /\ l.canonical_name = e.name /\ l.entity_type = e.type
       /\ l.document_id = d
       /\ \E r \in document_entities : r.document_id = d /\ r.entity_id = l.id

\* C24: a step that upserts or links an entity for a document is taken only
\* after the document's extraction call has returned a validated analysis, and
\* a step that inserts a triple of the document only after every entity of
\* the analysis's entity list has been upserted and linked to the document.
C24_StepsInOrder ==
    [][ \A d \in Docs :
          /\ WritesEntityOf(d) =>
                /\ received[d].kind = "ok"
                /\ tasks[1][d].pc \notin {"none", "queued", "mark", "extract"}
          /\ WritesTripleOf(d) =>
                /\ received[d].kind = "ok"
                /\ \A i \in 1..Len(tasks[1][d].analysis.entities) :
                      UpsertedAndLinked(tasks[1][d].analysis.entities[i], d)
      ]_vars

\* a triple of one document is in the table, after its entity was upserted
\* and linked, while the task of another document of the same batch is
\* between the upsert and the link of its entity
C24_Witness ==
    \E d1, d2 \in Docs :
       /\ d1 # d2
       /\ \E t \in triples : t.document_id = d1
       /\ \E r \in document_entities : r.document_id = d1
       /\ tasks[1][d1].pc = "done"
       /\ tasks[1][d2].pc = "link"

(***************************************************************************)
(* The three reference datasets.                                           *)
(***************************************************************************)
\* C25: when a matcher run has ended that began with an entity of a matchable
\* type (person or organization) in the store, the entity has a match row in
\* each of the three sources in which a reference record scores 0.7 or more
\* against its name: contributions are matched as loans and grants are.
C25_SameRuleAllSources ==
    (mPc = "done" /\ mRuns >= 2 /\ entities = lastRun.entities) =>
       \A e \in entities :
          e.entity_type \in {"person", "organization"} =>
             \A source \in match_source :
                Qualifying(e, source) # {} =>
                   \E r \in entity_crossref_matches :
                      r.entity_id = e.id /\ r.source = source

(***************************************************************************)
(* Matches a reviewer has marked false positive.                           *)
(***************************************************************************)
\* C26: for every match row marked false positive, no row of the same
\* (entity, source, source record) is unmarked, and when a matcher run has
\* ended (the mark was set before it began) the entity's summary list of that
\* source has no entry for the record.
C26_FalsePositiveStays ==
    \A r \in entity_crossref_matches :
       r.false_positive =>
          /\ \A q \in entity_crossref_matches :
                (/\ q.entity_id = r.entity_id
                 /\ q.source = r.source
                 /\ q.source_id = r.source_id) => q.false_positive
          /\ mPc = "done" =>
                \A x \in SummaryOf(r.entity_id, r.source).entries :
                   x.id # r.source_id

(***************************************************************************)
(* The status complete, and what a failed document leaves behind.          *)
(***************************************************************************)
\* C27: within a run, a document whose status is complete keeps that status
\* in every later state, also when a later upsert, link or triple insert of
\* its task throws.
C27_CompleteIsTerminal ==
    [][ \A d \in DOMAIN documents :
          Status(d) = "complete" => documents'[d].analysis_status = "complete"
      ]_vars

\* C28: when a run has ended, a document whose status is failed has no row in
\* document_entities and no row in triples, whichever step of its processing
\* failed.
C28_AllOrNothing ==
    mainPc[1] = "done" =>
       \A d \in DOMAIN documents :
          Status(d) = "failed" =>
             /\ \A r \in document_entities : r.document_id # d
             /\ \A t \in triples : t.document_id # d

(***************************************************************************)
(* The endpoints of a triple.                                              *)
(***************************************************************************)
\* the entity row id is the canonical entity of name n and type t
IsCanonical(id, n, t) ==
    \E r \in entities : r.id = id /\ r.canonical_name = n /\ r.entity_type = t

\* C29: every step that inserts a triple of a document writes as subject_id
\* and object_id the ids of the entity rows whose (canonical_name,
\* entity_type) are the (subject, subjectType) and (object, objectType) of the
\* extracted triple the task is at, also when the analysis names the same
\* name elsewhere in another letter case or under another type.
C29_EndpointsResolved ==
    [][ \A d \in Docs :
          \A t \in triples' :
             (t.document_id = d /\ t \notin triples) =>
                LET tr == tasks[1][d].analysis.triples[tasks[1][d].i]
                IN  /\ IsCanonical(t.subject_id, tr.subject, tr.subjectType)
                    /\ IsCanonical(t.object_id, tr.object, tr.objectType)
      ]_vars

\* C30: when a run has ended, for every document that is complete, every
\* entity that one of the document's triples references as subject, object or
\* location has a row in document_entities linking it to the document.
C30_EndpointsLinked ==
    mainPc[1] = "done" =>
       \A t \in triples :
          Status(t.document_id) = "complete" =>
             \A e \in {t.subject_id, t.object_id, t.location_id} \ {NoId} :
                \E r \in document_entities :
                   r.document_id = t.document_id /\ r.entity_id = e

=============================================================================
